---- MODULE Spec2Model ----
(***************************************************************************)
(* A model of cligo's App (src/cligo.go, the pflag based engine): the      *)
(* registry filled by Run/RegisterGroup/RegisterCommand, the resolver      *)
(* RunCLI/parseAndExecute, the binder executeCommand and the help          *)
(* renderer printHelp.                                                     *)
(*                                                                         *)
(* Tokens are the strings of os.Args.  TLC cannot take a string apart, so  *)
(* the lexical shape pflag reads off a token (leading dashes, the text     *)
(* before and after '=') is the table Lex over the vocabulary.  A struct   *)
(* tag is kept as the list of its comma separated parts, each part the     *)
(* list of its '=' separated halves, which is what parseCliTag iterates.   *)
(***************************************************************************)
EXTENDS Integers, Sequences, FiniteSets, TLC

\* ------------------------------------------------------------------ bounds
MaxBeans == 2
MaxArgs == 3
MaxTail == 3
MaxRuns == 2

\* --------------------------------------------------------------- constants
RootGroup == "cli"

\* An error value: its kind, the binding, token or descriptor it names, the
\* position it reports and the raw value it quotes.
NoErr == [kind |-> "nil", arg |-> "", pos |-> 0, val |-> ""]

Err(kind, arg, pos) == [kind |-> kind, arg |-> arg, pos |-> pos, val |-> ""]

ErrVal(kind, arg, val) == [kind |-> kind, arg |-> arg, pos |-> 0, val |-> val]

\* ------------------------------------------------------------- descriptors
\* A struct field: its Go type and its cli tag (<<>> when the field has none).
Fld(type, tag) == [type |-> type, tag |-> tag]

ParentFld(parent) == Fld("CliGroup", << <<"group", parent>> >>)

ArgFld(type, name) == Fld(type, << <<"argument", name>> >>)

OptFld(type, name) == Fld(type, << <<"option", name>> >>)

OptDefFld(type, name, def) == Fld(type, << <<"option", name>>, <<"default", def>> >>)

GroupBean(name, short, long, flds) ==
    [kind |-> "group", name |-> name, short |-> short, long |-> long, flds |-> flds]

CommandBean(name, short, long, flds) ==
    [kind |-> "command", name |-> name, short |-> short, long |-> long, flds |-> flds]

\* The descriptors an application may hand to Run through the Beans option.
Beans ==
    [ ship   |-> GroupBean("ship", "Manages ships.", "", <<ParentFld("cli")>>),
      mine   |-> GroupBean("mine", "Manages mines.", "Mines, long.", <<ParentFld("cli")>>),
      ship2  |-> GroupBean("ship", "Other ships.", "", <<ParentFld("cli")>>),
      dock   |-> GroupBean("dock", "Manages docks.", "", <<ParentFld("ship")>>),
      lost   |-> GroupBean("lost", "No parent.", "", <<Fld("string", <<>>)>>),
      new    |-> CommandBean("new", "Creates a new ship.", "",
                    << ParentFld("ship"),
                       ArgFld("string", "name"),
                       OptDefFld("int", "count", "1"),
                       OptDefFld("bool", "force", "true") >>),
      move   |-> CommandBean("move", "Moves SHIP.", "Moves SHIP to X.",
                    << ParentFld("ship"),
                       OptDefFld("int", "count", "1"),
                       ArgFld("string", "ship"),
                       ArgFld("int", "x"),
                       OptFld("bool", "verbose") >>),
      new2   |-> CommandBean("new", "Another new.", "",
                    << ParentFld("ship"),
                       ArgFld("int", "x") >>),
      mine2  |-> CommandBean("mine", "Lays a mine.", "",
                    << ParentFld("cli"),
                       ArgFld("string", "name") >>),
      stray  |-> CommandBean("stray", "No parent.", "", <<Fld("CliGroup", <<>>)>>) ]

BeanIds == DOMAIN Beans

GroupIds == {b \in BeanIds : Beans[b].kind = "group"}

CommandIds == {b \in BeanIds : Beans[b].kind = "command"}

\* ------------------------------------------------------------ struct tags
\* parseCliTag: the value the map holds for key (a later part overrides an
\* earlier one; a part without '=' maps its key to "true").
TagHas(tag, key) == \E i \in 1..Len(tag) : tag[i][1] = key

TagGet(tag, key) ==
    IF TagHas(tag, key)
    THEN LET i == CHOOSE j \in 1..Len(tag) :
                      /\ tag[j][1] = key
                      /\ \A k \in (j+1)..Len(tag) : tag[k][1] # key
         IN IF Len(tag[i]) = 2 THEN tag[i][2] ELSE "true"
    ELSE ""

\* extractParentGroup: the group named by the first CliGroup field whose tag
\* has a group key; "" when there is none.
IsParentField(f) == f.type = "CliGroup" /\ f.tag # <<>> /\ TagHas(f.tag, "group")

ExtractParentGroup(bean) ==
    IF \E i \in 1..Len(bean.flds) : IsParentField(bean.flds[i])
    THEN LET i == CHOOSE j \in 1..Len(bean.flds) :
                      /\ IsParentField(bean.flds[j])
                      /\ \A k \in 1..(j-1) : ~IsParentField(bean.flds[k])
         IN TagGet(bean.flds[i].tag, "group")
    ELSE ""

\* The keys the registry maps are read or written under.
GroupKeys ==
    {RootGroup} \cup {Beans[b].name : b \in GroupIds}
                \cup ({ExtractParentGroup(Beans[b]) : b \in BeanIds} \ {""})

\* The zero value reflect finds in a field of a freshly allocated descriptor.
ZeroValue(type) ==
    CASE type = "int" -> 0
      [] type = "bool" -> FALSE
      [] OTHER -> ""

ZeroFields(id) == [i \in 1..Len(Beans[id].flds) |-> ZeroValue(Beans[id].flds[i].type)]

\* ------------------------------------------------------------------- state
VARIABLES
    pending,        \* app.beans still to be registered by Run, in context order
    groups,         \* app.groups: parent name -> child group descriptors
    commands,       \* app.commands: parent name -> child command descriptors
    helps,          \* app.helps: group name -> long help
    fields,         \* the field storage of every command descriptor
    pc,             \* where the process is: register, resolve, bind, done, failed
    runs,           \* number of RunCLI calls made so far
    args,           \* os.Args[1:] of the current RunCLI call
    verbose,        \* hasVerbose(os.Args[1:])
    currentGroup,   \* parseAndExecute's currentGroup
    rest,           \* parseAndExecute's args (the remaining tokens)
    stack,          \* parseAndExecute's stack
    cmd,            \* the command handed to executeCommand
    out,            \* what the current call wrote to the output
    calls,          \* the handler invocations of the current call
    result,         \* the error returned by the last operation
    exit            \* the exit status Main ends the process with (-1: none yet)

vars == <<pending, groups, commands, helps, fields, pc, runs, args, verbose,
          currentGroup, rest, stack, cmd, out, calls, result, exit>>

registry == <<groups, commands, helps>>

AppHelp == "Naval Fate."

\* New: empty maps, the application help under the root group.
NewHelps == [g \in GroupKeys |-> IF g = RootGroup THEN AppHelp ELSE ""]

InitApp ==
    /\ groups = [g \in GroupKeys |-> <<>>]
    /\ commands = [g \in GroupKeys |-> <<>>]
    /\ helps = NewHelps
    /\ fields = [id \in CommandIds |-> ZeroFields(id)]
    /\ pc = "register"
    /\ runs = 0
    /\ args = <<>>
    /\ verbose = FALSE
    /\ currentGroup = RootGroup
    /\ rest = <<>>
    /\ stack = <<>>
    /\ cmd = ""
    /\ out = <<>>
    /\ calls = <<>>
    /\ result = NoErr
    /\ exit = -1

RECURSIVE SeqsUpTo(_, _)
SeqsUpTo(S, n) ==
    IF n = 0 THEN {<<>>}
    ELSE LET shorter == SeqsUpTo(S, n - 1)
         IN shorter \cup {Append(s, x) : s \in shorter, x \in S}

Distinct(s) == \A i, j \in 1..Len(s) : i # j => s[i] # s[j]

BeanLists == {s \in SeqsUpTo(BeanIds, MaxBeans) : Distinct(s)}

Init == InitApp /\ pending \in BeanLists

\* ------------------------------------------------------------ registration
\* Main: a non-nil error of Run is printed and the process exits with 1.
MainOut(err) == IF err = NoErr THEN <<>> ELSE <<[ev |-> "error", err |-> err]>>

MainExit(err) == IF err = NoErr THEN 0 ELSE 1

HasGroupBean(s) == \E i \in 1..Len(s) : Beans[s[i]].kind = "group"

\* Run registers the group beans first, then the command beans, each kind in
\* context order.
NextIndex(s) ==
    IF HasGroupBean(s)
    THEN CHOOSE i \in 1..Len(s) :
             /\ Beans[s[i]].kind = "group"
             /\ \A k \in 1..(i-1) : Beans[s[k]].kind # "group"
    ELSE 1

Remove(s, i) == SubSeq(s, 1, i - 1) \o SubSeq(s, i + 1, Len(s))

LongOrShort(bean) == IF Len(bean.long) = 0 THEN bean.short ELSE bean.long

RegisterGroupErrorNil(id) == NoErr

\* errors.Errorf("parent group not found in cli group: %v", group)
RegisterGroupError(id) == Err("NoParentDeclared", id, 0)

GroupsAfterRegisterKnownParent(id) ==
    LET parentGroup == ExtractParentGroup(Beans[id])
    IN IF parentGroup = RootGroup
          \/ \E q \in DOMAIN groups :
                 \E i \in 1..Len(groups[q]) : Beans[groups[q][i]].name = parentGroup
       THEN [groups EXCEPT ![parentGroup] = Append(groups[parentGroup], id)]
       ELSE groups

GroupsAfterRegisterPrepend(id) ==
    LET parentGroup == ExtractParentGroup(Beans[id])
    IN [groups EXCEPT ![parentGroup] = <<id>> \o groups[parentGroup]]

\* App.RegisterGroup
GroupsAfterRegister(id) ==
    LET parentGroup == ExtractParentGroup(Beans[id])
    IN [groups EXCEPT ![parentGroup] = Append(groups[parentGroup], id)]

HelpsAfterRegister(id) == [helps EXCEPT ![Beans[id].name] = LongOrShort(Beans[id])]

RegisterGroup ==
    /\ pc = "register"
    /\ pending # <<>>
    /\ HasGroupBean(pending)
    /\ LET i == NextIndex(pending)
           id == pending[i]
       IN IF ExtractParentGroup(Beans[id]) = ""
             THEN /\ result' = RegisterGroupError(id)
                  /\ pc' = "failed"
                  /\ out' = MainOut(RegisterGroupError(id))
                  /\ exit' = 1
                  /\ UNCHANGED <<pending, groups, helps>>
             ELSE /\ pending' = Remove(pending, i)
                  /\ groups' = GroupsAfterRegister(id)
                  /\ helps' = HelpsAfterRegister(id)
                  /\ UNCHANGED <<result, pc, out, exit>>
    /\ UNCHANGED <<commands, fields, runs, args, verbose, currentGroup, rest,
                   stack, cmd, calls>>

RegisterCommandError(id) == Err("NoParentDeclared", id, 1)

\* App.RegisterCommand
CommandsAfterRegister(id) ==
    LET parentGroup == ExtractParentGroup(Beans[id])
    IN [commands EXCEPT ![parentGroup] = Append(commands[parentGroup], id)]

RegisterCommand ==
    /\ pc = "register"
    /\ pending # <<>>
    /\ ~HasGroupBean(pending)
    /\ LET id == pending[NextIndex(pending)]
       IN IF ExtractParentGroup(Beans[id]) = ""
             THEN /\ result' = RegisterCommandError(id)
                  /\ pc' = "failed"
                  /\ out' = MainOut(RegisterCommandError(id))
                  /\ exit' = 1
                  /\ UNCHANGED <<pending, commands>>
             ELSE /\ pending' = Remove(pending, NextIndex(pending))
                  /\ commands' = CommandsAfterRegister(id)
                  /\ UNCHANGED <<result, pc, out, exit>>
    /\ UNCHANGED <<groups, helps, fields, runs, args, verbose, currentGroup,
                   rest, stack, cmd, calls>>

\* ------------------------------------------------------------------ tokens
Words == {"ship", "mine", "dock", "new", "move", "launch", "Enterprise", "3", "x", "false"}

LongToken(name, eq, val) == [kind |-> "long", name |-> name, eq |-> eq, val |-> val]

\* What pflag's parseArgs reads off a token: "--name", "--name=value", "-c",
\* or a positional word.
Lex(t) ==
    CASE t = "--help"        -> LongToken("help", FALSE, "")
      [] t = "--version"     -> LongToken("version", FALSE, "")
      [] t = "--verbose"     -> LongToken("verbose", FALSE, "")
      [] t = "--bogus"       -> LongToken("bogus", FALSE, "")
      [] t = "--count"       -> LongToken("count", FALSE, "")
      [] t = "--count=3"     -> LongToken("count", TRUE, "3")
      [] t = "--count=x"     -> LongToken("count", TRUE, "x")
      [] t = "--force"       -> LongToken("force", FALSE, "")
      [] t = "--force=true"  -> LongToken("force", TRUE, "true")
      [] t = "--force=false" -> LongToken("force", TRUE, "false")
      [] t = "-h"            -> [kind |-> "short", name |-> "h", eq |-> FALSE, val |-> ""]
      [] t = "-v"            -> [kind |-> "short", name |-> "v", eq |-> FALSE, val |-> ""]
      [] t = "--"            -> [kind |-> "dashdash", name |-> "", eq |-> FALSE, val |-> ""]
      [] OTHER               -> [kind |-> "word", name |-> "", eq |-> FALSE, val |-> t]

IsHelpTokenLongOnly(t) == t = "--help"

\* args[1] == "--help" || args[1] == "-h"
IsHelpToken(t) == t = "--help" \/ t = "-h"

\* hasVerbose
RECURSIVE hasVerbose(_)
hasVerbose(a) ==
    IF a = <<>> THEN FALSE
    ELSE IF Head(a) = "--verbose" \/ Head(a) = "-v" THEN TRUE
    ELSE hasVerbose(Tail(a))

\* ----------------------------------------------------------- help renderer
Entry(id) == [name |-> Beans[id].name, short |-> Beans[id].short]

Entries(ids) == [i \in 1..Len(ids) |-> Entry(ids[i])]

printHelpOfRoot(groupName, stk) ==
    << [ev |-> "help",
        group |-> RootGroup,
        path |-> stk,
        children |-> Len(groups[RootGroup]) + Len(commands[RootGroup]) > 0,
        text |-> helps[RootGroup],
        rootopts |-> TRUE,
        list |-> Entries(groups[RootGroup]) \o Entries(commands[RootGroup])] >>

\* printHelp: the usage line (path, and whether the group has children), the
\* long help, the root options block, then the child groups and the child
\* commands in the order the registry holds them.
printHelp(groupName, stk) ==
    << [ev |-> "help",
        group |-> groupName,
        path |-> stk,
        children |-> Len(groups[groupName]) + Len(commands[groupName]) > 0,
        text |-> helps[groupName],
        rootopts |-> (groupName = RootGroup),
        list |-> Entries(groups[groupName]) \o Entries(commands[groupName])] >>

IsArgument(f) == f.tag # <<>> /\ TagHas(f.tag, "argument")

IsOption(f) == f.tag # <<>> /\ ~TagHas(f.tag, "argument") /\ TagHas(f.tag, "option")

\* The indices (1-based here, 0-based in Go) of the argument fields, in
\* declaration order.
RECURSIVE FieldsWhere(_, _, _)
FieldsWhere(flds, i, isArg) ==
    IF i > Len(flds) THEN <<>>
    ELSE IF (isArg /\ IsArgument(flds[i])) \/ (~isArg /\ IsOption(flds[i]))
         THEN <<i>> \o FieldsWhere(flds, i + 1, isArg)
         ELSE FieldsWhere(flds, i + 1, isArg)

ArgPositions(id) == FieldsWhere(Beans[id].flds, 1, TRUE)

OptPositions(id) == FieldsWhere(Beans[id].flds, 1, FALSE)

ArgName(id, i) == TagGet(Beans[id].flds[i].tag, "argument")

OptName(id, i) == TagGet(Beans[id].flds[i].tag, "option")

ArgNames(id) == [k \in 1..Len(ArgPositions(id)) |-> ArgName(id, ArgPositions(id)[k])]

\* getCommandUsage and getCommandTryUsage, echoed together on a binding error
getCommandUsage(id, stk) ==
    << [ev |-> "usage", cmd |-> id, name |-> Beans[id].name, path |-> stk,
        arguments |-> ArgNames(id)] >>

\* printCommandHelp: usage line, long help, the options with their defaults
printCommandHelp(id, stk) ==
    << [ev |-> "cmdhelp", cmd |-> id, name |-> Beans[id].name, path |-> stk,
        arguments |-> ArgNames(id),
        text |-> LongOrShort(Beans[id]),
        options |-> [k \in 1..Len(OptPositions(id)) |->
                       [name |-> OptName(id, OptPositions(id)[k]),
                        default |-> TagGet(Beans[id].flds[OptPositions(id)[k]].tag,
                                           "default")]]] >>

\* ---------------------------------------------------------------- resolver
\* The call returns err to Run, and Run to Main.
Return(err, written) ==
    /\ pc' = "done"
    /\ result' = err
    /\ out' = out \o written \o MainOut(err)
    /\ exit' = MainExit(err)

VersionBanner == <<[ev |-> "version"]>>

\* App.RunCLI on os.Args[1:] = a
RunCLIBody(a) ==
    /\ runs' = runs + 1
    /\ args' = a
    /\ verbose' = hasVerbose(a)
    /\ calls' = <<>>
    /\ currentGroup' = RootGroup
    /\ rest' = a
    /\ stack' = <<>>
    /\ cmd' = ""
    /\ IF Len(a) = 0
       THEN /\ pc' = "done" /\ result' = NoErr /\ exit' = 0
            /\ out' = printHelp(RootGroup, <<>>)
       ELSE IF a[1] = "--version" \/ a[1] = "-v"
       THEN /\ pc' = "done" /\ result' = NoErr /\ exit' = 0
            /\ out' = VersionBanner
       ELSE IF a[1] = "--help" \/ a[1] = "-h"
       THEN /\ pc' = "done" /\ result' = NoErr /\ exit' = 0
            /\ out' = printHelp(RootGroup, <<>>)
       ELSE /\ pc' = "resolve" /\ result' = NoErr /\ exit' = -1
            /\ out' = <<>>
    /\ UNCHANGED <<pending, groups, commands, helps, fields>>

\* Run calls RunCLI once every bean is registered; a host may call it again
\* once it has returned, n times in all, with os.Args[1:] drawn from S.
RunCLI(S, n) ==
    /\ pc \in {"register", "returned"}
    /\ pending = <<>>
    /\ runs < n
    /\ \E a \in S : RunCLIBody(a)

\* The first descriptor of ids whose name is tok ("" when none): the range
\* loops of parseAndExecute return at the first match.
FirstNamed(ids, tok) ==
    IF \E i \in 1..Len(ids) : Beans[ids[i]].name = tok
    THEN ids[CHOOSE i \in 1..Len(ids) :
                 /\ Beans[ids[i]].name = tok
                 /\ \A k \in 1..(i-1) : Beans[ids[k]].name # tok]
    ELSE ""

UnknownTokenNil(tok) == NoErr

\* fmt.Errorf("unknown command or group: %s", args[0])
UnknownToken(tok) == Err("UnknownToken", tok, 0)

MatchedGroupUnlessCommand ==
    IF rest = <<>> \/ FirstNamed(commands[currentGroup], rest[1]) # ""
    THEN ""
    ELSE FirstNamed(groups[currentGroup], rest[1])

\* The loop over app.groups[currentGroup]: it runs first and returns at the
\* first group named args[0].
MatchedGroup == IF rest = <<>> THEN "" ELSE FirstNamed(groups[currentGroup], rest[1])

\* The loop over app.commands[currentGroup], reached when no group matched.
MatchedCommand == IF rest = <<>> THEN "" ELSE FirstNamed(commands[currentGroup], rest[1])

\* One call of App.parseAndExecute
parseAndExecute ==
    /\ pc = "resolve"
    /\ LET g == MatchedGroup
           c == MatchedCommand
           helpNext == Len(rest) > 1 /\ IsHelpToken(rest[2])
       IN IF rest = <<>>
          THEN /\ Return(NoErr, printHelp(currentGroup, stack))
               /\ UNCHANGED <<currentGroup, rest, stack, cmd>>
          ELSE IF g # ""
          THEN IF helpNext
               THEN /\ Return(NoErr, printHelp(Beans[g].name, stack))
                    /\ UNCHANGED <<currentGroup, rest, stack, cmd>>
               ELSE /\ stack' = Append(stack, rest[1])
                    /\ currentGroup' = Beans[g].name
                    /\ rest' = Tail(rest)
                    /\ UNCHANGED <<pc, result, out, exit, cmd>>
          ELSE IF c # ""
          THEN IF helpNext
               THEN /\ Return(NoErr, printCommandHelp(c, stack))
                    /\ UNCHANGED <<currentGroup, rest, stack, cmd>>
               ELSE /\ stack' = Append(stack, rest[1])
                    /\ cmd' = c
                    /\ rest' = Tail(rest)
                    /\ pc' = "bind"
                    /\ UNCHANGED <<result, out, exit, currentGroup>>
          ELSE /\ Return(UnknownToken(rest[1]),
                         <<[ev |-> "unknown", token |-> rest[1]]>>
                             \o printHelp(currentGroup, stack))
               /\ UNCHANGED <<currentGroup, rest, stack, cmd>>
    /\ UNCHANGED <<pending, groups, commands, helps, fields, runs, args, verbose, calls>>

\* ------------------------------------------------------------------ binder
\* strconv.ParseInt / strconv.Atoi on the numerals of the vocabulary, and
\* strconv.Itoa back.
IntTable == ("0" :> 0) @@ ("1" :> 1) @@ ("3" :> 3) @@ ("03" :> 3) @@ ("10" :> 10)

IsInt(s) == s \in DOMAIN IntTable

ParseInt(s) == IF IsInt(s) THEN IntTable[s] ELSE 0

Itoa(n) == CHOOSE s \in {"0", "1", "3", "10"} : IntTable[s] = n

\* strconv.ParseBool
TrueWords == {"1", "t", "T", "TRUE", "true", "True"}

FalseWords == {"0", "f", "F", "FALSE", "false", "False"}

IsBool(s) == s \in TrueWords \cup FalseWords

ParseBool(s) == s \in TrueWords

\* The flags executeCommand defines on the flag set: one per option field of
\* kind string, int or bool, and the Bool flag "help".
FlagNames(id) ==
    {OptName(id, OptPositions(id)[k]) : k \in 1..Len(OptPositions(id))} \cup {"help"}

OptField(id, name) ==
    CHOOSE i \in 1..Len(Beans[id].flds) : IsOption(Beans[id].flds[i]) /\ OptName(id, i) = name

FlagType(id, name) ==
    IF \E i \in 1..Len(Beans[id].flds) : IsOption(Beans[id].flds[i]) /\ OptName(id, i) = name
    THEN Beans[id].flds[OptField(id, name)].type
    ELSE "bool"

\* pflag Value.Set followed by Value.String
FlagValueOK(type, v) ==
    CASE type = "int" -> IsInt(v)
      [] type = "bool" -> IsBool(v)
      [] OTHER -> TRUE

FlagValueString(type, v) ==
    CASE type = "int" -> Itoa(ParseInt(v))
      [] type = "bool" -> IF ParseBool(v) THEN "true" ELSE "false"
      [] OTHER -> v

SetFlag(set, name, v) ==
    [n \in DOMAIN set \cup {name} |-> IF n = name THEN v ELSE set[n]]

ParseState(pos, set, err, usage) == [pos |-> pos, set |-> set, err |-> err, usage |-> usage]

\* pflag FlagSet.Parse (ContinueOnError, interspersed, no shorthands defined):
\* pos are the positional tokens so far, set the flags changed so far.
RECURSIVE ParseFlags(_, _, _, _)
ParseFlags(id, a, pos, set) ==
    IF a = <<>> THEN ParseState(pos, set, NoErr, FALSE)
    ELSE LET lx == Lex(Head(a))
             type == FlagType(id, lx.name)
         IN CASE lx.kind = "word" -> ParseFlags(id, Tail(a), Append(pos, Head(a)), set)
              [] lx.kind = "dashdash" -> ParseState(pos \o Tail(a), set, NoErr, FALSE)
              [] lx.kind = "short" ->
                   IF lx.name = "h"
                   THEN ParseState(pos, set, Err("ErrHelp", Head(a), 0), TRUE)
                   ELSE ParseState(pos, set, Err("UnknownOption", Head(a), 0), FALSE)
              [] lx.kind = "long" ->
                   IF lx.name \notin FlagNames(id)
                   THEN ParseState(pos, set, Err("UnknownOption", Head(a), 0), FALSE)
                   ELSE IF lx.eq
                   THEN IF FlagValueOK(type, lx.val)
                        THEN ParseFlags(id, Tail(a), pos,
                                        SetFlag(set, lx.name, FlagValueString(type, lx.val)))
                        ELSE ParseState(pos, set, ErrVal("TypeMismatch", lx.name, lx.val), FALSE)
                   ELSE IF type = "bool"
                   THEN ParseFlags(id, Tail(a), pos, SetFlag(set, lx.name, "true"))
                   ELSE IF Len(a) > 1
                   THEN IF FlagValueOK(type, a[2])
                        THEN ParseFlags(id, Tail(Tail(a)), pos,
                                        SetFlag(set, lx.name, FlagValueString(type, a[2])))
                        ELSE ParseState(pos, set, ErrVal("TypeMismatch", lx.name, a[2]), FALSE)
                   ELSE ParseState(pos, set, Err("NeedsValue", Head(a), 0), FALSE)

NoFlags == [n \in {} |-> ""]

MissingArgumentNil(argName, fieldIndex) == NoErr

\* fmt.Errorf("missing argument '%s' on position %d", argName, fieldIndex)
MissingArgument(argName, fieldIndex) == Err("MissingArgument", argName, fieldIndex)

BindState(flds, err) == [flds |-> flds, err |-> err]

\* The loop "Set argument values": the k-th argument takes the k-th
\* positional token; flds is the descriptor's field storage so far.
RECURSIVE SetArguments(_, _, _, _)
SetArguments(id, k, argValues, flds) ==
    IF k > Len(ArgPositions(id)) THEN BindState(flds, NoErr)
    ELSE LET i == ArgPositions(id)[k]
             fieldIndex == i - 1
             argName == ArgName(id, i)
             type == Beans[id].flds[i].type
         IN IF k > Len(argValues)
            THEN BindState(flds, MissingArgument(argName, fieldIndex))
            ELSE CASE type = "string" ->
                        SetArguments(id, k + 1, argValues, [flds EXCEPT ![i] = argValues[k]])
                   [] type = "int" ->
                        IF IsInt(argValues[k])
                        THEN SetArguments(id, k + 1, argValues,
                                          [flds EXCEPT ![i] = ParseInt(argValues[k])])
                        ELSE BindState(flds, ErrVal("TypeMismatch", argName, argValues[k]))
                   [] OTHER -> SetArguments(id, k + 1, argValues, flds)

SetOptionsBoolOnly(id, set, flds) ==
    [i \in 1..Len(flds) |->
        IF IsOption(Beans[id].flds[i]) /\ OptName(id, i) \in DOMAIN set
           /\ Beans[id].flds[i].type = "bool"
        THEN ParseBool(set[OptName(id, i)])
        ELSE flds[i]]

\* flagSet.Visit: every changed flag that is an option of the command is
\* written into its field.
OptionValue(type, v) ==
    CASE type = "int" -> ParseInt(v)
      [] type = "bool" -> ParseBool(v)
      [] OTHER -> v

SetOptions(id, set, flds) ==
    [i \in 1..Len(flds) |->
        IF IsOption(Beans[id].flds[i]) /\ OptName(id, i) \in DOMAIN set
           /\ Beans[id].flds[i].type \in {"string", "int", "bool"}
        THEN OptionValue(Beans[id].flds[i].type, set[OptName(id, i)])
        ELSE flds[i]]

\* What the handler may return.
HandlerResults == {NoErr, Err("HandlerFailed", "", 0)}

\* App.executeCommand
executeCommand ==
    /\ pc = "bind"
    /\ LET p == ParseFlags(cmd, rest, <<>>, NoFlags)
           isHelp == "help" \in DOMAIN p.set /\ p.set["help"] = "true"
           b == SetArguments(cmd, 1, p.pos, fields[cmd])
           bound == SetOptions(cmd, p.set, b.flds)
       IN IF p.err # NoErr
          THEN /\ Return(p.err, IF p.usage THEN printCommandHelp(cmd, stack) ELSE <<>>)
               /\ UNCHANGED <<fields, calls>>
          ELSE IF isHelp
          THEN /\ Return(NoErr, printCommandHelp(cmd, stack))
               /\ UNCHANGED <<fields, calls>>
          ELSE IF b.err # NoErr
          THEN /\ Return(b.err, getCommandUsage(cmd, stack))
               /\ fields' = [fields EXCEPT ![cmd] = b.flds]
               /\ UNCHANGED calls
          ELSE /\ fields' = [fields EXCEPT ![cmd] = bound]
               /\ calls' = Append(calls, [cmd |-> cmd, seen |-> bound])
               /\ \E herr \in HandlerResults : Return(herr, <<>>)
    /\ UNCHANGED <<pending, groups, commands, helps, runs, args, verbose,
                   currentGroup, rest, stack, cmd>>

\* RunCLI has returned to its caller: what the call wrote and returned has
\* been consumed and its locals are gone; the registry and the descriptors
\* stay.
Returned ==
    /\ pc = "done"
    /\ pc' = "returned"
    /\ args' = <<>>
    /\ verbose' = FALSE
    /\ currentGroup' = RootGroup
    /\ rest' = <<>>
    /\ stack' = <<>>
    /\ cmd' = ""
    /\ out' = <<>>
    /\ calls' = <<>>
    /\ result' = NoErr
    /\ exit' = -1
    /\ UNCHANGED <<pending, groups, commands, helps, fields, runs>>

\* ----------------------------------------------------------- specification
\* The process started by Main: any short list of beans, one RunCLI call on
\* any short token list.
NavTokens == {"ship", "dock", "mine", "new", "launch", "Enterprise", "--help", "-h", "-v"}

NavArgLists == SeqsUpTo(NavTokens, MaxArgs)

MainCalls == 1

Next ==
    \/ RegisterGroup
    \/ RegisterCommand
    \/ RunCLI(NavArgLists, MainCalls)
    \/ parseAndExecute
    \/ executeCommand
    \/ Returned

Spec == Init /\ [][Next]_vars

\* A host that registers the example's ship group with its commands and calls
\* RunCLI up to MaxRuns times, each time on a command path followed by any
\* short list of command tokens.
BindBeanLists == {<<"ship", "new", "move">>}

BindTokens == {"Enterprise", "3", "false", "--count", "--force", "--force=true",
               "--help", "-h", "--verbose"}

BindPaths == {<<"ship", "new">>, <<"ship", "move">>}

BindArgLists == {p \o t : p \in BindPaths, t \in SeqsUpTo(BindTokens, MaxTail)}

InitBind == InitApp /\ pending \in BindBeanLists

NextBind ==
    \/ RegisterGroup
    \/ RegisterCommand
    \/ RunCLI(BindArgLists, MaxRuns)
    \/ parseAndExecute
    \/ executeCommand
    \/ Returned

SpecBind == InitBind /\ [][NextBind]_vars

\* The process started by Main on the same beans: one RunCLI call on a
\* command path followed by any short list of command tokens.
CmdTokens == BindTokens \cup {"-v", "--bogus"}

CmdArgLists == {p \o t : p \in BindPaths, t \in SeqsUpTo(CmdTokens, MaxTail)}

NextCmd ==
    \/ RegisterGroup
    \/ RegisterCommand
    \/ RunCLI(CmdArgLists, MainCalls)
    \/ parseAndExecute
    \/ executeCommand
    \/ Returned

SpecCmd == InitBind /\ [][NextCmd]_vars

\* ================================================================== claims
Last(s) == s[Len(s)]

IsPrefix(s, t) == Len(s) <= Len(t) /\ SubSeq(t, 1, Len(s)) = s

ChildGroupNamed(g, tok) == \E i \in 1..Len(groups[g]) : Beans[groups[g][i]].name = tok

ChildCommandNamed(g, tok) == \E i \in 1..Len(commands[g]) : Beans[commands[g][i]].name = tok

HelpOf(e, g) == e.ev = "help" /\ e.group = g

BindingErrors ==
    {"UnknownToken", "UnknownOption", "NeedsValue", "ErrHelp", "MissingArgument",
     "TypeMismatch", "NoParentDeclared"}

ArgumentsValid(id, argValues) ==
    \A k \in 1..Len(ArgPositions(id)) :
        /\ k <= Len(argValues)
        /\ Beans[id].flds[ArgPositions(id)[k]].type = "int" => IsInt(argValues[k])

C5_AtMostOneValidated ==
    /\ Len(calls) <= 1
    /\ result.kind \in BindingErrors => calls = <<>>
    /\ calls # <<>> =>
         /\ pc = "done"
         /\ calls[1].cmd = cmd
         /\ ParseFlags(cmd, rest, <<>>, NoFlags).err = NoErr
         /\ ArgumentsValid(cmd, ParseFlags(cmd, rest, <<>>, NoFlags).pos)

C5_Witness ==
    /\ pc = "done"
    /\ args = <<"ship", "new", "Enterprise">>
    /\ Len(calls) = 1
    /\ calls[1].cmd = "new"
    /\ result = NoErr

\* C6: when the first token names a child group of the current group (or,
\* no child group having that name, a child command) and the next token is
\* --help or -h, parseAndExecute writes the help of that group (or command)
\* and returns nil; nothing after the help flag is consumed and no handler is
\* invoked.
C6_HelpAfterName ==
    [][ (pc = "resolve" /\ Len(rest) > 1 /\ (rest[2] = "--help" \/ rest[2] = "-h")
         /\ (ChildGroupNamed(currentGroup, rest[1]) \/ ChildCommandNamed(currentGroup, rest[1])))
        => /\ pc' = "done"
           /\ result' = NoErr
           /\ exit' = 0
           /\ Len(out') = Len(out) + 1
           /\ IF ChildGroupNamed(currentGroup, rest[1])
              THEN HelpOf(Last(out'), rest[1])
              ELSE Last(out').ev = "cmdhelp" /\ Last(out').name = rest[1]
           /\ calls' = <<>>
           /\ rest' = rest /\ stack' = stack /\ currentGroup' = currentGroup ]_vars

C6_Witness ==
    /\ pc = "done"
    /\ args = <<"ship", "-h", "launch">>
    /\ out = << [ev |-> "help", group |-> "ship", path |-> <<>>, children |-> FALSE,
                 text |-> "Manages ships.", rootopts |-> FALSE, list |-> <<>>] >>
    /\ result = NoErr
    /\ calls = <<>>

\* C7: a call that reaches a group with no token left (the root with an
\* empty token list included) writes that group's help and returns nil with
\* no handler invoked.
C7_EmptyTokensHelp ==
    (pc = "done" /\ rest = <<>> /\ cmd = "")
    => /\ result = NoErr
       /\ exit = 0
       /\ calls = <<>>
       /\ Len(out) = 1
       /\ HelpOf(out[1], currentGroup)
       /\ currentGroup = (IF stack = <<>> THEN RootGroup ELSE Last(stack))

C7_Witness ==
    /\ pc = "done"
    /\ args = <<"ship", "dock">>
    /\ rest = <<>>
    /\ currentGroup = "dock"
    /\ HelpOf(out[1], "dock")
    /\ result = NoErr

\* C8: registering a group (or command) whose name is already registered
\* under the same parent returns an error and leaves groups, commands and
\* helps as they were.
NextBean == pending[NextIndex(pending)]

IsDuplicate(id) ==
    LET p == ExtractParentGroup(Beans[id])
    IN /\ p # ""
       /\ IF Beans[id].kind = "group"
          THEN ChildGroupNamed(p, Beans[id].name)
          ELSE ChildCommandNamed(p, Beans[id].name)

C8_DuplicateRejected ==
    [][ (pc = "register" /\ pending # <<>> /\ IsDuplicate(NextBean))
        => (result' # NoErr /\ registry' = registry) ]_vars

\* C10: a registration never moves an entry of a help listing: in every
\* group's help the child groups already listed stay, in their order, before
\* a newly registered group, and likewise the child commands; so of two
\* children of one kind the one registered first is listed first.
GroupsListed(p) == SubSeq(printHelp(p, <<>>)[1].list, 1, Len(groups[p]))

CommandsListed(p) ==
    SubSeq(printHelp(p, <<>>)[1].list, Len(groups[p]) + 1, Len(printHelp(p, <<>>)[1].list))

C10_ListingInRegistrationOrder ==
    [][ (groups' # groups \/ commands' # commands) =>
        \A p \in GroupKeys :
          /\ IsPrefix(GroupsListed(p), GroupsListed(p)')
          /\ IsPrefix(CommandsListed(p), CommandsListed(p)')
          /\ Len(GroupsListed(p)') = Len(groups[p]')
          /\ Len(CommandsListed(p)') = Len(commands[p]') ]_vars

C10_Witness ==
    /\ pc = "done"
    /\ args = <<>>
    /\ Len(out[1].list) = 2
    /\ out[1].list[1].name = "ship"
    /\ out[1].list[2].name = "mine"
    /\ groups[RootGroup] = <<"ship", "mine">>

\* ------------------------------------------------------- claims on binding
Dispatched == pc = "done" /\ cmd # ""

Parsed == ParseFlags(cmd, rest, <<>>, NoFlags)

HelpAsked == "help" \in DOMAIN Parsed.set /\ Parsed.set["help"] = "true"

ArgType(id, k) == Beans[id].flds[ArgPositions(id)[k]].type

ValidFor(type, w) ==
    CASE type = "int" -> IsInt(w)
      [] type = "bool" -> w \in {"true", "false"}
      [] OTHER -> TRUE

Coerce(type, w) ==
    CASE type = "int" -> IntTable[w]
      [] type = "bool" -> (w = "true")
      [] OTHER -> w

\* C1: executeCommand, given fewer positional tokens than the command has
\* arguments (options parsed, no help asked, the tokens present of their
\* argument's type), returns the missing-argument error naming the first
\* argument without a token and that argument's position among the
\* arguments (counted from 0 or from 1), and invokes no handler.
C1_MissingArgument ==
    (/\ Dispatched
     /\ Parsed.err = NoErr
     /\ ~HelpAsked
     /\ Len(Parsed.pos) < Len(ArgPositions(cmd))
     /\ \A k \in 1..Len(Parsed.pos) : ValidFor(ArgType(cmd, k), Parsed.pos[k]))
    => /\ result.kind = "MissingArgument"
       /\ result.arg = ArgNames(cmd)[Len(Parsed.pos) + 1]
       /\ result.pos \in {Len(Parsed.pos), Len(Parsed.pos) + 1}
       /\ calls = <<>>

\* C3 reads the tokens after the command as positional values and options
\* with their values.  Decode is that reading: pos the positional values,
\* opts the value supplied for each option, ok whether the tokens have that
\* form.  With boolPairs a Boolean option is followed by its value like any
\* other option; without, a Boolean option is a bare --name or --name=value.
DeclaredOption(id, name) ==
    \E i \in 1..Len(Beans[id].flds) : IsOption(Beans[id].flds[i]) /\ OptName(id, i) = name

Decoded(ok, pos, opts) == [ok |-> ok, pos |-> pos, opts |-> opts]

RECURSIVE Decode(_, _, _, _, _)
Decode(id, t, boolPairs, pos, opts) ==
    IF t = <<>> THEN Decoded(TRUE, pos, opts)
    ELSE LET lx == Lex(Head(t))
             type == FlagType(id, lx.name)
         IN IF lx.kind = "word"
            THEN Decode(id, Tail(t), boolPairs, Append(pos, Head(t)), opts)
            ELSE IF lx.kind = "long" /\ DeclaredOption(id, lx.name)
            THEN IF lx.eq
                 THEN IF ValidFor(type, lx.val)
                      THEN Decode(id, Tail(t), boolPairs, pos, SetFlag(opts, lx.name, lx.val))
                      ELSE Decoded(FALSE, pos, opts)
                 ELSE IF type = "bool" /\ ~boolPairs
                 THEN Decode(id, Tail(t), boolPairs, pos, SetFlag(opts, lx.name, "true"))
                 ELSE IF Len(t) > 1 /\ Lex(t[2]).kind = "word" /\ ValidFor(type, t[2])
                 THEN Decode(id, Tail(Tail(t)), boolPairs, pos, SetFlag(opts, lx.name, t[2]))
                 ELSE Decoded(FALSE, pos, opts)
            ELSE Decoded(FALSE, pos, opts)

BoundAsDecoded(d) ==
    (/\ d.ok
     /\ Len(d.pos) >= Len(ArgPositions(cmd))
     /\ \A k \in 1..Len(ArgPositions(cmd)) : ValidFor(ArgType(cmd, k), d.pos[k]))
    => /\ Len(calls) = 1
       /\ calls[1].cmd = cmd
       /\ Len(args) >= 2
       /\ Beans[cmd].name = args[2]
       /\ ExtractParentGroup(Beans[cmd]) = args[1]
       /\ \A k \in 1..Len(ArgPositions(cmd)) :
            calls[1].seen[ArgPositions(cmd)[k]] = Coerce(ArgType(cmd, k), d.pos[k])
       /\ \A name \in DOMAIN d.opts :
            calls[1].seen[OptField(cmd, name)] = Coerce(FlagType(cmd, name), d.opts[name])

TokensNaming(name) ==
    {k \in 1..Len(rest) : Lex(rest[k]).kind = "long" /\ Lex(rest[k]).name = name}

DeclaredDefault(id, i) == TagGet(Beans[id].flds[i].tag, "default") = "true"

C4_BoolOption ==
    (Dispatched /\ calls # <<>>)
    => \A i \in 1..Len(Beans[cmd].flds) :
         (IsOption(Beans[cmd].flds[i]) /\ Beans[cmd].flds[i].type = "bool")
         => LET given == TokensNaming(OptName(cmd, i))
            IN /\ (given # {} /\ \A k \in given : ~Lex(rest[k]).eq \/ Lex(rest[k]).val = "true")
                  => calls[1].seen[i] = TRUE
               /\ given = {} => calls[1].seen[i] = DeclaredDefault(cmd, i)

\* C9: the fields a handler sees are those binding the call's tokens into a
\* fresh descriptor gives, whatever was dispatched before.
FreshBound ==
    SetOptions(cmd, Parsed.set, SetArguments(cmd, 1, Parsed.pos, ZeroFields(cmd)).flds)

C9_FreshFields == (Dispatched /\ calls # <<>>) => calls[1].seen = FreshBound

\* ------------------------------------------------- claims on name resolution
\* C11: when a child group and a child command of the current group both
\* bear the name of the first token, parseAndExecute takes the group: it
\* writes the group's help when --help or -h follows, and otherwise descends
\* into the group; the command is neither handed to executeCommand nor
\* invoked.
C11_GroupWins ==
    [][ (pc = "resolve" /\ rest # <<>>
         /\ ChildGroupNamed(currentGroup, rest[1])
         /\ ChildCommandNamed(currentGroup, rest[1]))
        => /\ cmd' = ""
           /\ calls' = <<>>
           /\ IF Len(rest) > 1 /\ (rest[2] = "--help" \/ rest[2] = "-h")
              THEN /\ pc' = "done"
                   /\ result' = NoErr
                   /\ HelpOf(Last(out'), rest[1])
              ELSE /\ pc' = "resolve"
                   /\ currentGroup' = rest[1]
                   /\ stack' = Append(stack, rest[1])
                   /\ rest' = Tail(rest) ]_vars

C11_Witness ==
    /\ pc = "done"
    /\ args = <<"mine">>
    /\ groups[RootGroup] = <<"mine">>
    /\ commands[RootGroup] = <<"mine2">>
    /\ currentGroup = "mine"
    /\ HelpOf(out[1], "mine")
    /\ calls = <<>>

\* ----------------------------------------------------- claims on error paths
\* C12: a call that returns an unknown-token, unknown-option, missing-argument
\* or type-mismatch error has written the help of the current group, or the
\* usage or help of the current command, before the line that reports the
\* error.
ContextualKinds == {"UnknownToken", "UnknownOption", "MissingArgument", "TypeMismatch"}

IsContextual(e) ==
    \/ e.ev = "help" /\ e.group = currentGroup
    \/ e.ev \in {"usage", "cmdhelp"} /\ e.cmd = cmd

C12_HelpBeforeError ==
    (pc = "done" /\ result.kind \in ContextualKinds)
    => /\ Len(out) >= 2
       /\ Last(out) = [ev |-> "error", err |-> result]
       /\ \E i \in 1..(Len(out) - 1) : IsContextual(out[i])

\* C13: registering a descriptor without a parent-group declaration returns
\* an error naming it and leaves groups, commands and helps as they were;
\* Run returns that error (Main: exit status 1) and from then on nothing is
\* registered, RunCLI is never called and no handler runs.
NoParentDeclared(id) == ExtractParentGroup(Beans[id]) = ""

C13_NoParentAborts ==
    [][ /\ (pc = "register" /\ pending # <<>> /\ NoParentDeclared(NextBean))
           => /\ result'.kind = "NoParentDeclared"
              /\ result'.arg = NextBean
              /\ registry' = registry
              /\ pending' = pending
              /\ pc' = "failed"
              /\ exit' = 1
              /\ runs' = 0
        /\ pc = "failed" => FALSE ]_vars

C13_Witness ==
    /\ pc = "failed"
    /\ pending = <<"lost">>
    /\ groups[RootGroup] = <<"ship">>
    /\ result = [kind |-> "NoParentDeclared", arg |-> "lost", pos |-> 0, val |-> ""]
    /\ exit = 1
    /\ runs = 0
    /\ calls = <<>>

\* ------------------------------------------------ claims on verbosity flags
\* C14: a call that ends at a group whose first remaining token is --verbose
\* or -v, the token naming no child group or command of that group, has
\* verbosity on, has written exactly the help of that group and returns nil
\* (exit status 0).
IsVerboseToken(t) == t = "--verbose" \/ t = "-v"

C14_VerboseAtGroup ==
    (/\ pc = "done" /\ cmd = "" /\ rest # <<>>
     /\ IsVerboseToken(rest[1])
     /\ ~ChildGroupNamed(currentGroup, rest[1])
     /\ ~ChildCommandNamed(currentGroup, rest[1]))
    => /\ verbose
       /\ result = NoErr
       /\ exit = 0
       /\ out = printHelp(currentGroup, stack)

\* C15: a dispatched command whose tokens, the reserved ones set aside, bind
\* without error: when --help or -h is among the tokens the command help is
\* written, nil is returned and the handler is not invoked; otherwise, when
\* --verbose or -v is among them, verbosity is on and the handler is invoked
\* once, the call returning what the handler returned.
HasToken(a, T) == \E k \in 1..Len(a) : a[k] \in T

IsReserved(t) == IsHelpToken(t) \/ IsVerboseToken(t)

NotReserved(t) == ~IsReserved(t)

Unreserved == ParseFlags(cmd, SelectSeq(rest, NotReserved), <<>>, NoFlags)

C15_ReservedOptions ==
    (/\ Dispatched
     /\ HasToken(rest, {"--help", "-h", "--verbose", "-v"})
     /\ Unreserved.err = NoErr
     /\ ArgumentsValid(cmd, Unreserved.pos))
    => IF HasToken(rest, {"--help", "-h"})
       THEN /\ result = NoErr
            /\ calls = <<>>
            /\ \E i \in 1..Len(out) : out[i].ev = "cmdhelp" /\ out[i].cmd = cmd
       ELSE /\ verbose
            /\ Len(calls) = 1
            /\ calls[1].cmd = cmd
            /\ result \in HandlerResults

\* ------------------------------------------- claims on registration order
DeclaresParent(id) == \E i \in 1..Len(Beans[id].flds) : IsParentField(Beans[id].flds[i])

Parent(id) == ExtractParentGroup(Beans[id])

\* The descriptors the registry holds, as a set: their order is forgotten.
Registered ==
    UNION {{groups[p][i] : i \in 1..Len(groups[p])} : p \in GroupKeys}
    \cup UNION {{commands[p][i] : i \in 1..Len(commands[p])} : p \in GroupKeys}

DistinctNames(R) ==
    \A a, b \in R : a # b => <<Parent(a), Beans[a].name>> # <<Parent(b), Beans[b].name>>

Outcome(kind, target, at, tail) == [kind |-> kind, target |-> target, at |-> at, tail |-> tail]

\* How a token list resolves against a set R of descriptors that is read as
\* a tree through the parent each descriptor declares: no order is involved.
RECURSIVE TreeResolve(_, _, _)
TreeResolve(R, g, t) ==
    IF t = <<>> THEN Outcome("help", g, g, <<>>)
    ELSE LET G == {id \in R : Beans[id].kind = "group" /\ Parent(id) = g
                                                      /\ Beans[id].name = t[1]}
             C == {id \in R : Beans[id].kind = "command" /\ Parent(id) = g
                                                        /\ Beans[id].name = t[1]}
             helpNext == Len(t) > 1 /\ t[2] \in {"--help", "-h"}
         IN IF G # {}
            THEN IF helpNext THEN Outcome("help", t[1], g, <<>>)
                 ELSE TreeResolve(R, t[1], Tail(t))
            ELSE IF C # {}
            THEN IF helpNext THEN Outcome("cmdhelp", CHOOSE id \in C : TRUE, g, <<>>)
                 ELSE Outcome("dispatch", CHOOSE id \in C : TRUE, g, Tail(t))
            ELSE Outcome("unknown", t[1], g, <<>>)

TreeRun(R, a) ==
    IF a = <<>> THEN Outcome("help", RootGroup, RootGroup, <<>>)
    ELSE IF a[1] \in {"--version", "-v"} THEN Outcome("version", "", RootGroup, <<>>)
    ELSE IF a[1] \in {"--help", "-h"} THEN Outcome("help", RootGroup, RootGroup, <<>>)
    ELSE TreeResolve(R, RootGroup, a)

\* What the call did, read off the state it ended in.
Observed ==
    IF cmd # "" THEN Outcome("dispatch", cmd, currentGroup, rest)
    ELSE IF result.kind = "UnknownToken"
    THEN Outcome("unknown", result.arg, currentGroup, <<>>)
    ELSE IF out[1].ev = "version" THEN Outcome("version", "", RootGroup, <<>>)
    ELSE IF out[1].ev = "help"
    THEN Outcome("help", out[1].group, currentGroup, <<>>)
    ELSE Outcome("cmdhelp", out[1].cmd, currentGroup, <<>>)

\* C16: the registration of a descriptor that declares a parent succeeds
\* whether or not a group of that name is registered yet, and puts the
\* descriptor in the registry; and when the registered descriptors have
\* pairwise distinct (parent, name), the descriptor a token list ends at
\* (command dispatched with which tokens, group or command whose help is
\* written, token reported unknown and at which group) is the one found in
\* the tree of parent declarations, which no registration order enters.
C16_OrderIndependent ==
    /\ [][ (pc = "register" /\ pending # <<>> /\ DeclaresParent(NextBean))
            => /\ result' = NoErr
               /\ pc' = "register"
               /\ pending' = Remove(pending, NextIndex(pending))
               /\ Registered' = Registered \cup {NextBean} ]_vars
    /\ [] ((pc = "done" /\ DistinctNames(Registered))
            => Observed = TreeRun(Registered, args))

C16_Witness ==
    /\ pc = "done"
    /\ groups["ship"] = <<"dock">>
    /\ groups[RootGroup] = <<"ship">>
    /\ args = <<"ship", "dock">>
    /\ Observed = Outcome("help", "dock", "dock", <<>>)
    /\ result = NoErr

\* C17: once RunCLI has been called, every registered descriptor declares as
\* its parent the root group or the name of a registered group.
ParentRegistered(id) ==
    \/ Parent(id) = RootGroup
    \/ \E g \in Registered : Beans[g].kind = "group" /\ Beans[g].name = Parent(id)

C17_NoDanglingParent ==
    runs > 0 => \A id \in Registered : ParentRegistered(id)

\* -------------------------------------------------- claims on the usage line
\* C18: every help written for a group other than the root carries as its
\* path the tokens taken from the root to that group, the group's own name
\* last; so the help of a group is the same text whether --help or -h
\* followed its name or its name was the last token.
C18_GroupUsagePath ==
    \A i \in 1..Len(out) :
        (out[i].ev = "help" /\ out[i].group # RootGroup)
        => /\ out[i].path # <<>>
           /\ Last(out[i].path) = out[i].group
           /\ IsPrefix(out[i].path, args)

====
